---------------------------- MODULE Spec2Model ----------------------------
(***************************************************************************)
(* Friend-Circle-Lite, friend_circle_lite/get_info.py: feed discovery,     *)
(* feed parsing, per-friend processing, the concurrent aggregator of       *)
(* fetch_and_process_data and its cache reconciliation.                    *)
(*                                                                         *)
(* Python values: None is NoneVal, '' is the empty string "", a dict is a  *)
(* sequence of entries with pairwise distinct keys in insertion order, a   *)
(* list is a sequence.  A URL is a record of its parts.                    *)
(***************************************************************************)
EXTENDS Integers, Sequences, FiniteSets, TLC

NoneVal == "None"

\* ------------------------------------------------------------- bounds
MaxFriends == 2

\* the count argument of fetch_and_process_data of the modelled runs
Count == 2

\* ------------------------------------------------------- sequence helpers
Range(s) == {s[i] : i \in 1..Len(s)}

SeqsUpTo(S, n) == UNION {[1..k -> S] : k \in 0..n}

\* ---------------------------------------------------------------- dicts
DictKeys(d) == {d[i].name : i \in 1..Len(d)}

DictGet(d, k) == LET i == CHOOSE j \in 1..Len(d) : d[j].name = k IN d[i]

\* d[k] = e: an existing key keeps its position, a new key is appended
DictSet(d, e) ==
    IF e.name \in DictKeys(d)
    THEN [i \in 1..Len(d) |-> IF d[i].name = e.name THEN e ELSE d[i]]
    ELSE Append(d, e)

\* d.pop(k)
DictPop(d, k) == SelectSeq(d, LAMBDA e : e.name # k)

\* {e['name']: e for e in list}
RECURSIVE DictFromList(_)
DictFromList(l) ==
    IF l = <<>> THEN <<>>
    ELSE DictSet(DictFromList(SubSeq(l, 1, Len(l) - 1)), l[Len(l)])

\* ------------------------------------------------------------ values
\* A URL string, by its parts (urlparse).  '' is EmptyUrl, None is NoneUrl.
Url(s, n, p, q) == [scheme |-> s, netloc |-> n, path |-> p, query |-> q]

EmptyUrl == Url("", "", "", "")

NoneUrl == Url(NoneVal, NoneVal, NoneVal, NoneVal)

\* the string 'none'
NoneStrUrl == Url("", "", "none", "")

\* Python truthiness of a URL value
Truthy(u) == u # EmptyUrl /\ u # NoneUrl

\* a friend's blog URL: a site root, with or without the trailing slash
BlogUrl(h, sl) == Url("http", h, IF sl THEN "/" ELSE "", "")

FeedUrl(h, p) == Url("http", h, p, "")

StaleUrl == FeedUrl("s1", "/old.xml")

\* A time string: a raw one of a feed entry (hours UTC since 2024-01-01),
\* one no format parses, or a missing field; a formatted one
\* ('%Y-%m-%d %H:%M', hours UTC+8 since 2024-01-01 00:00) or ''.
Time(t) == [kind |-> "time", t |-> t]

Garbage == [kind |-> "garbage", t |-> 0]

Absent == [kind |-> "absent", t |-> 0]

EmptyStr == [kind |-> "empty", t |-> 0]

Entry(t, pub, upd, l) == [title |-> t, published |-> pub, updated |-> upd, link |-> l]

\* ------------------------------------------------- the network (fixture)
VARIABLES
    site_w,             \* what the site of host "w" serves: [responses, doc]
    input,              \* the arguments of the function called on its own
    output              \* what that call has returned so far

\* a site that answers 404 on every path
QuietSite == [responses |-> <<>>, doc |-> [ok |-> FALSE, entries |-> <<>>]]

NoCall == [fn |-> "none"]

\* the answer of a kind: a transport error, a status that is not 200, a
\* page, a feed by its content type, a feed by the head of its body
ResponseOfKind(k) ==
    CASE k = "exc" -> [kind |-> "exc", status |-> 0, ctype |-> "", marker |-> FALSE]
      [] k = "page" -> [kind |-> "resp", status |-> 200, ctype |-> "text/html", marker |-> FALSE]
      [] k = "xml" -> [kind |-> "resp", status |-> 200, ctype |-> "text/xml", marker |-> FALSE]
      [] k = "marker" -> [kind |-> "resp", status |-> 200, ctype |-> "text/html", marker |-> TRUE]
      [] OTHER -> [kind |-> "resp", status |-> 404, ctype |-> "text/html", marker |-> FALSE]

\* session.get(feed_url) of check_feed: "exc" is a requests.RequestException
ProbeResponse(u) ==
    CASE u.netloc = "w" ->
             ResponseOfKind(IF u.path \in DOMAIN site_w.responses
                            THEN site_w.responses[u.path] ELSE "404")
      [] u = FeedUrl("s1", "/atom.xml") ->
             [kind |-> "resp", status |-> 200, ctype |-> "application/atom+xml", marker |-> FALSE]
      [] u = FeedUrl("s2", "/atom.xml") ->
             [kind |-> "exc", status |-> 0, ctype |-> "", marker |-> FALSE]
      [] u = FeedUrl("s2", "/rss.xml") ->
             [kind |-> "resp", status |-> 200, ctype |-> "text/html", marker |-> FALSE]
      [] u = FeedUrl("s2", "/rss.php") ->
             [kind |-> "resp", status |-> 200, ctype |-> "text/html", marker |-> TRUE]
      [] u = FeedUrl("s2", "/feed") ->
             [kind |-> "resp", status |-> 200, ctype |-> "text/xml", marker |-> TRUE]
      [] u = FeedUrl("s3", "/feed") ->
             [kind |-> "resp", status |-> 200, ctype |-> "application/rss+xml", marker |-> TRUE]
      [] OTHER ->
             [kind |-> "resp", status |-> 404, ctype |-> "text/html", marker |-> FALSE]

\* session.get(url) of parse_feed followed by feedparser.parse: the entries
\* of the document; ok is FALSE when the fetch raises
FeedDoc(u) ==
    CASE u.netloc = "w" -> site_w.doc
      [] u = FeedUrl("s1", "/atom.xml") ->
             [ok |-> TRUE, entries |->
                << Entry("a1", Time(1), Absent, Url("http", "s1", "/a1", "")),
                   Entry("a2", Time(3), Absent, Url("http", "localhost", "/a2", "")),
                   Entry("a3", Time(2), Time(4), Url("http", "s1", "/a3", "x=1")) >>]
      [] u = FeedUrl("s2", "/rss.php") ->
             [ok |-> TRUE, entries |->
                << Entry("b1", Absent, Time(3), Url("http", "127.0.0.1", "", "")) >>]
      [] u = FeedUrl("s2", "/feed") ->
             [ok |-> TRUE, entries |->
                << Entry("c1", Time(3), Absent, Url("http", "s2", "/c1", "")),
                   Entry("c2", Time(1), Absent, Url("http", "s2", "/c2", "")) >>]
      [] u = FeedUrl("s3", "/feed") ->
             [ok |-> TRUE, entries |->
                << Entry("d1", Time(2), Absent, Url("http", "s3", "/d1", "")),
                   Entry("d2", Absent, Absent, Url("http", "s3", "/d2", "")) >>]
      [] u = FeedUrl("s4", "/feed") ->
             [ok |-> TRUE, entries |-> <<>>]
      [] u = FeedUrl("s4", "/index.xml") ->
             [ok |-> TRUE, entries |->
                << Entry("e1", Garbage, Absent, Url("http", "s4", "/e1", "")) >>]
      [] OTHER -> [ok |-> FALSE, entries |-> <<>>]

\* ------------------------------------------------ format_published_time
\* offset of the output zone, timezone(timedelta(hours=8))
TzHours == 8

\* a parsable string is read as UTC and written in UTC+8; '' otherwise
format_published_time(time_str) ==
    IF time_str.kind = "time" THEN Time(time_str.t + TzHours) ELSE EmptyStr

\* datetime.strptime(s, '%Y-%m-%d %H:%M') raises ValueError on ''
StrptimeRaises(s) == s.kind # "time"

\* ------------------------------------------------------------ check_feed
possible_feeds ==
    << <<"atom", "/atom.xml">>, <<"rss", "/rss.xml">>, <<"rss2", "/rss2.xml">>,
       <<"rss3", "/rss.php">>, <<"feed", "/feed">>, <<"feed2", "/feed.xml">>,
       <<"feed3", "/feed/">>, <<"feed4", "/feed.php">>, <<"index", "/index.xml">> >>

\* 'xml' in content_type or 'rss' in content_type or 'atom' in content_type
CtypeIsFeed(ct) == ct \in {"application/atom+xml", "application/rss+xml", "text/xml"}

\* blog_url.rstrip('/') + path
CandidateUrl(blog_url, path) ==
    IF blog_url.query = "" /\ blog_url.path = "/"
    THEN Url(blog_url.scheme, blog_url.netloc, path, "")
    ELSE Url(blog_url.scheme, blog_url.netloc, blog_url.path \o path, blog_url.query)

\* LooksLikeFeed without the look at the head of the body
LooksLikeFeed_IgnoresBody(r) ==
    /\ r.kind = "resp"
    /\ r.status = 200
    /\ CtypeIsFeed(r.ctype)

LooksLikeFeed(r) ==
    /\ r.kind = "resp"
    /\ r.status = 200
    /\ (CtypeIsFeed(r.ctype) \/ r.marker)

\* the loop over possible_feeds from candidate i on; probed is the list of
\* the URLs requested so far
RECURSIVE ProbeFrom(_, _, _)
ProbeFrom(blog_url, i, probed) ==
    IF i > Len(possible_feeds)
    THEN [raised |-> FALSE, feed_type |-> "none", feed_url |-> blog_url, probed |-> probed]
    ELSE LET feed_url == CandidateUrl(blog_url, possible_feeds[i][2])
         IN  IF LooksLikeFeed(ProbeResponse(feed_url))
             THEN [raised |-> FALSE, feed_type |-> possible_feeds[i][1],
                   feed_url |-> feed_url, probed |-> Append(probed, feed_url)]
             ELSE ProbeFrom(blog_url, i + 1, Append(probed, feed_url))

\* blog_url.rstrip of a blog_url that is no string raises AttributeError,
\* which check_feed does not catch
check_feed(blog_url) ==
    IF blog_url = NoneUrl
    THEN [raised |-> TRUE, feed_type |-> "none", feed_url |-> NoneUrl, probed |-> <<>>]
    ELSE ProbeFrom(blog_url, 1, <<>>)

\* ---------------------------------------------------- replace_non_domain
\* 'localhost' in netloc (a substring test, so a port or a longer name also
\* passes) or the netloc is a dotted quad (with a port it is not)
IsLocalNetloc(n) ==
    n \in {"localhost", "localhost:4000", "127.0.0.1", "mylocalhost.example"}

\* blog_url.rstrip('/'), on the path of the URL
RStripSlashes(p) ==
    CASE p = "/" -> ""
      [] p = "/blog/" -> "/blog"
      [] OTHER -> p

\* '/' + (parsed.path or '/').lstrip('/')
OneLeadingSlash(p) ==
    CASE p = "" -> "/"
      [] p = "//a2" -> "/a2"
      [] OTHER -> p

\* a path that, without its leading slash, reads as an absolute URL
EmbedsUrl(p) == p = "/http://localhost/x"

\* replace_non_domain putting the site's path in front but keeping the host
replace_non_domain_KeepsNetloc(link, blog_url) ==
    IF IsLocalNetloc(link.netloc)
    THEN IF blog_url = NoneUrl
         THEN link
         ELSE Url(link.scheme, link.netloc,
                  RStripSlashes(blog_url.path) \o OneLeadingSlash(link.path),
                  link.query)
    ELSE link

\* urljoin(blog_url.rstrip('/') + '/', path.lstrip('/')): scheme, host and
\* path of blog_url, then the path and query of the link; a path that reads
\* as an absolute URL replaces blog_url altogether.  blog_url None raises
\* inside the try, and the link is returned.
replace_non_domain(link, blog_url) ==
    IF IsLocalNetloc(link.netloc)
    THEN IF blog_url = NoneUrl
         THEN link
         ELSE IF EmbedsUrl(link.path)
         THEN Url("http", "localhost", "/x", link.query)
         ELSE Url(blog_url.scheme, blog_url.netloc,
                  RStripSlashes(blog_url.path) \o OneLeadingSlash(link.path),
                  link.query)
    ELSE link

\* ------------------------------------------------------------ parse_feed
\* sorted(s, key=..., reverse=True) with keys[i] the key of s[i]: descending,
\* equal keys keep their order.  The place of s[i] is one more than the
\* number of items that go before it: those of a greater key, and those of
\* the same key that stand before it in s.  (\o <<>> leaves a sequence as it
\* is and has TLC compute it once, not at every use.)
SortedDesc(s, keys) ==
    LET place == [i \in 1..Len(s) |->
                     1 + Cardinality({j \in 1..Len(s) :
                                         \/ keys[j] > keys[i]
                                         \/ keys[j] = keys[i] /\ j < i})] \o <<>>
    IN  [k \in 1..Len(s) |-> s[CHOOSE i \in 1..Len(s) : place[i] = k]] \o <<>>

EmptyFeed == [website_name |-> "", author |-> "", link |-> "", articles |-> <<>>]

EntryPublished(entry) ==
    IF entry.published # Absent THEN format_published_time(entry.published)
    ELSE IF entry.updated # Absent THEN format_published_time(entry.updated)
    ELSE EmptyStr

ParsedArticle(entry, blog_url) ==
    [title |-> entry.title,
     link |-> replace_non_domain(entry.link, blog_url),
     published |-> EntryPublished(entry)]

PublishedKey(a) == a.published.t

\* every exception inside parse_feed (the fetch, the sort key of an article
\* with published '') is caught and gives the empty feed
parse_feed(url, count, blog_url) ==
    LET doc == FeedDoc(url)
        arts == [i \in 1..Len(doc.entries) |-> ParsedArticle(doc.entries[i], blog_url)]
    IN  IF ~doc.ok THEN EmptyFeed
        ELSE IF \E i \in 1..Len(arts) : StrptimeRaises(arts[i].published) THEN EmptyFeed
        ELSE LET sorted == SortedDesc(arts, [i \in 1..Len(arts) |-> PublishedKey(arts[i])])
             IN  [website_name |-> "site", author |-> "", link |-> "",
                  articles |-> IF count < Len(sorted) THEN SubSeq(sorted, 1, count)
                               ELSE sorted]

\* -------------------------------------------------------- process_friend
\* A friend of the friend list: wf is FALSE for an entry that does not
\* unpack into name, blog_url, avatar.
Friend(n, u) == [wf |-> TRUE, name |-> n, blog_url |-> u, avatar |-> "av.png"]

BadFriend == [wf |-> FALSE, name |-> NoneVal, blog_url |-> NoneUrl, avatar |-> NoneVal]

CacheUpdate(a, n, u, r) == [action |-> a, name |-> n, url |-> u, reason |-> r]

FriendResult(n, st, arts, u, ft, upd, src, nd, np) ==
    [raised |-> FALSE, name |-> n, status |-> st, articles |-> arts, feed_url |-> u,
     feed_type |-> ft, cache_update |-> upd, source_used |-> src,
     discoveries |-> nd, parses |-> np]

\* an exception that leaves process_friend
Raised(nd, np) ==
    [raised |-> TRUE, name |-> NoneVal, status |-> "raised", articles |-> <<>>,
     feed_url |-> NoneUrl, feed_type |-> "none",
     cache_update |-> CacheUpdate("none", NoneVal, NoneUrl, ""),
     source_used |-> "none", discoveries |-> nd, parses |-> np]

\* rss_lookup = {e['name']: e for e in specific_and_cache ...}
rss_lookup(specific_and_cache) == DictFromList(specific_and_cache)

\* the articles of a feed in the shape of a friend's articles
FriendArticles(feed_info, name, avatar) ==
    [i \in 1..Len(feed_info.articles) |->
        [title |-> feed_info.articles[i].title,
         created |-> feed_info.articles[i].published,
         link |-> feed_info.articles[i].link,
         author |-> name,
         avatar |-> avatar]]

\* isinstance(feed_info, dict) and 'articles' in feed_info
HasArticlesKey(feed_info) == "articles" \in DOMAIN feed_info

\* SelectSource with the lookup of the preset source missing every friend
SelectSource_IgnoresPreset(friend, specific_and_cache) ==
    LET found == check_feed(friend.blog_url)
    IN  [raised |-> found.raised, feed_url |-> found.feed_url,
         feed_type |-> found.feed_type, source_used |-> "auto",
         cache_update |->
             IF found.feed_type # "none" /\ Truthy(found.feed_url)
             THEN CacheUpdate("set", friend.name, found.feed_url, "auto_discovered")
             ELSE CacheUpdate("none", friend.name, NoneUrl, ""),
         discoveries |-> 1]

\* SelectSource staging the discovered URL without the test of feed_type
SelectSource_AlwaysStages(friend, specific_and_cache) ==
    LET lookup == rss_lookup(specific_and_cache)
    IN  IF friend.name \in DictKeys(lookup)
        THEN [raised |-> FALSE, feed_url |-> DictGet(lookup, friend.name).url,
              feed_type |-> "specific",
              source_used |-> DictGet(lookup, friend.name).source,
              cache_update |-> CacheUpdate("none", friend.name, NoneUrl, ""),
              discoveries |-> 0]
        ELSE LET found == check_feed(friend.blog_url)
             IN  [raised |-> found.raised, feed_url |-> found.feed_url,
                  feed_type |-> found.feed_type, source_used |-> "auto",
                  cache_update |->
                      CacheUpdate("set", friend.name, found.feed_url, "auto_discovered"),
                  discoveries |-> 1]

\* step 1 and 2: the preset source of the friend, or discovery
SelectSource(friend, specific_and_cache) ==
    LET lookup == rss_lookup(specific_and_cache)
        none == CacheUpdate("none", friend.name, NoneUrl, "")
    IN  IF friend.name \in DictKeys(lookup)
        THEN [raised |-> FALSE, feed_url |-> DictGet(lookup, friend.name).url,
              feed_type |-> "specific",
              source_used |-> DictGet(lookup, friend.name).source,
              cache_update |-> none, discoveries |-> 0]
        ELSE LET found == check_feed(friend.blog_url)
             IN  [raised |-> found.raised, feed_url |-> found.feed_url,
                  feed_type |-> found.feed_type, source_used |-> "auto",
                  cache_update |->
                      IF found.feed_type # "none" /\ Truthy(found.feed_url)
                      THEN CacheUpdate("set", friend.name, found.feed_url, "auto_discovered")
                      ELSE none,
                  discoveries |-> 1]

\* step 3: parse the feed of the selected source
ParseStep(friend, count, src) ==
    IF src.feed_type # "none" /\ Truthy(src.feed_url)
    THEN LET feed_info == parse_feed(src.feed_url, count, friend.blog_url)
         IN  IF HasArticlesKey(feed_info)
             THEN [articles |-> FriendArticles(feed_info, friend.name, friend.avatar),
                   parse_error |-> FALSE, parses |-> 1]
             ELSE [articles |-> <<>>, parse_error |-> TRUE, parses |-> 1]
    ELSE [articles |-> <<>>, parse_error |-> FALSE, parses |-> 0]

\* RepairStep repairing every source that gave no article, discovered or not
RepairStep_RepairsEverySource(friend, count, src, parsed) ==
    LET same == [raised |-> FALSE, articles |-> parsed.articles,
                 feed_url |-> src.feed_url, feed_type |-> src.feed_type,
                 source_used |-> src.source_used, cache_update |-> src.cache_update,
                 discoveries |-> src.discoveries, parses |-> parsed.parses]
        gone == [same EXCEPT !.feed_url = NoneUrl, !.feed_type = "none",
                     !.cache_update = CacheUpdate("delete", friend.name, NoneUrl, "remove_invalid"),
                     !.discoveries = src.discoveries + 1]
    IN  IF parsed.articles = <<>>
        THEN LET found == check_feed(friend.blog_url)
             IN  IF found.raised
                 THEN [same EXCEPT !.raised = TRUE, !.discoveries = src.discoveries + 1]
                 ELSE IF found.feed_type # "none" /\ Truthy(found.feed_url)
                 THEN LET feed_info == parse_feed(found.feed_url, count, friend.blog_url)
                      IN  IF HasArticlesKey(feed_info)
                          THEN [same EXCEPT
                                  !.articles = FriendArticles(feed_info, friend.name, friend.avatar),
                                  !.feed_url = found.feed_url,
                                  !.feed_type = found.feed_type,
                                  !.source_used = "auto",
                                  !.cache_update = CacheUpdate("set", friend.name,
                                                       found.feed_url, "repair_cache"),
                                  !.discoveries = src.discoveries + 1,
                                  !.parses = parsed.parses + 1]
                          ELSE [same EXCEPT !.discoveries = src.discoveries + 1,
                                            !.parses = parsed.parses + 1]
                 ELSE gone
        ELSE same

\* step 4: a cached source that failed to parse is discovered again
RepairStep(friend, count, src, parsed) ==
    LET same == [raised |-> FALSE, articles |-> parsed.articles,
                 feed_url |-> src.feed_url, feed_type |-> src.feed_type,
                 source_used |-> src.source_used, cache_update |-> src.cache_update,
                 discoveries |-> src.discoveries, parses |-> parsed.parses]
        gone == [same EXCEPT !.feed_url = NoneUrl, !.feed_type = "none",
                     !.cache_update = CacheUpdate("delete", friend.name, NoneUrl, "remove_invalid"),
                     !.discoveries = src.discoveries + 1]
    IN  IF parsed.parse_error /\ src.source_used \in {"cache", "unknown"}
        THEN LET found == check_feed(friend.blog_url)
             IN  IF found.raised
                 THEN [same EXCEPT !.raised = TRUE, !.discoveries = src.discoveries + 1]
                 ELSE IF found.feed_type # "none" /\ Truthy(found.feed_url)
                 THEN LET feed_info == parse_feed(found.feed_url, count, friend.blog_url)
                      IN  IF HasArticlesKey(feed_info)
                          THEN [same EXCEPT
                                  !.articles = FriendArticles(feed_info, friend.name, friend.avatar),
                                  !.feed_url = found.feed_url,
                                  !.feed_type = found.feed_type,
                                  !.source_used = "auto",
                                  !.cache_update = CacheUpdate("set", friend.name,
                                                       found.feed_url, "repair_cache"),
                                  !.discoveries = src.discoveries + 1,
                                  !.parses = parsed.parses + 1]
                          ELSE [same EXCEPT !.discoveries = src.discoveries + 1,
                                            !.parses = parsed.parses + 1]
                 ELSE gone
        ELSE same

\* process_friend with the status taken from the feed type, not the articles
process_friend_StatusFromFeedType(friend, count, specific_and_cache) ==
    IF ~friend.wf
    THEN FriendResult(NoneVal, "error", <<>>, NoneUrl, "none",
                      CacheUpdate("none", NoneVal, NoneUrl, "bad_friend_data"), "none", 0, 0)
    ELSE LET src == SelectSource(friend, specific_and_cache)
         IN  IF src.raised THEN Raised(src.discoveries, 0)
             ELSE LET r == RepairStep(friend, count, src, ParseStep(friend, count, src))
                  IN  IF r.raised THEN Raised(r.discoveries, r.parses)
                      ELSE FriendResult(friend.name,
                                        IF r.feed_type # "none" THEN "active" ELSE "error",
                                        r.articles, r.feed_url, r.feed_type,
                                        r.cache_update, r.source_used,
                                        r.discoveries, r.parses)

process_friend(friend, count, specific_and_cache) ==
    IF ~friend.wf
    THEN FriendResult(NoneVal, "error", <<>>, NoneUrl, "none",
                      CacheUpdate("none", NoneVal, NoneUrl, "bad_friend_data"), "none", 0, 0)
    ELSE LET src == SelectSource(friend, specific_and_cache)
         IN  IF src.raised THEN Raised(src.discoveries, 0)
             ELSE LET r == RepairStep(friend, count, src, ParseStep(friend, count, src))
                  IN  IF r.raised THEN Raised(r.discoveries, r.parses)
                      ELSE FriendResult(friend.name,
                                        IF r.articles # <<>> THEN "active" ELSE "error",
                                        r.articles, r.feed_url, r.feed_type,
                                        r.cache_update, r.source_used,
                                        r.discoveries, r.parses)

\* ------------------------------------------------------------ the cache
CacheItem(n, u) == [name |-> n, url |-> u]

SourceEntry(n, u, src) == [name |-> n, url |-> u, source |-> src]

\* _load_cache: a missing file is the empty cache; items without a name or
\* a url are dropped; every item is tagged cache
_load_cache(file) ==
    IF ~file.exists THEN <<>>
    ELSE LET kept == SelectSeq(file.data, LAMBDA it : it.name # "" /\ Truthy(it.url))
         IN  [i \in 1..Len(kept) |-> SourceEntry(kept[i].name, kept[i].url, "cache")]

\* _save_cache writing the first item only
_save_cache_FirstOnly(cache_items) ==
    [exists |-> TRUE,
     data |-> [i \in 1..(IF cache_items = <<>> THEN 0 ELSE 1) |->
                  CacheItem(cache_items[i].name, cache_items[i].url)]]

\* _save_cache with _atomic_write_json: the file becomes the items without
\* their source tag
_save_cache(cache_items) ==
    [exists |-> TRUE,
     data |-> [i \in 1..Len(cache_items) |->
                  CacheItem(cache_items[i].name, cache_items[i].url)]]

\* unique_updates without the test of manual_name_set
RECURSIVE unique_updates_NoManualFilter(_, _)
unique_updates_NoManualFilter(cache_updates, manual_name_set) ==
    IF cache_updates = <<>> THEN <<>>
    ELSE LET upd == cache_updates[Len(cache_updates)]
             rest == unique_updates_NoManualFilter(
                         SubSeq(cache_updates, 1, Len(cache_updates) - 1), manual_name_set)
         IN  IF upd.name = NoneVal \/ upd.name = "" THEN rest
             ELSE IF upd.action = "set"
                  THEN IF Truthy(upd.url) /\ upd.url # NoneStrUrl
                       THEN DictSet(rest, [name |-> upd.name, action |-> "set",
                                           url |-> upd.url, reason |-> upd.reason])
                       ELSE rest
             ELSE IF upd.action = "delete"
                  THEN DictSet(rest, [name |-> upd.name, action |-> "delete",
                                      url |-> NoneUrl, reason |-> upd.reason])
             ELSE rest

\* unique_updates rebound, not keyed, at every update: only the last is kept
RECURSIVE unique_updates_KeepsLastOnly(_, _)
unique_updates_KeepsLastOnly(cache_updates, manual_name_set) ==
    IF cache_updates = <<>> THEN <<>>
    ELSE LET upd == cache_updates[Len(cache_updates)]
             rest == unique_updates_KeepsLastOnly(
                         SubSeq(cache_updates, 1, Len(cache_updates) - 1), manual_name_set)
         IN  IF upd.name = NoneVal \/ upd.name = "" THEN rest
             ELSE IF upd.name \in manual_name_set THEN rest
             ELSE IF upd.action = "set"
                  THEN IF Truthy(upd.url) /\ upd.url # NoneStrUrl
                       THEN << [name |-> upd.name, action |-> "set",
                                url |-> upd.url, reason |-> upd.reason] >>
                       ELSE rest
             ELSE IF upd.action = "delete"
                  THEN << [name |-> upd.name, action |-> "delete",
                           url |-> NoneUrl, reason |-> upd.reason] >>
             ELSE rest

\* the loop that builds unique_updates from cache_updates
RECURSIVE unique_updates(_, _)
unique_updates(cache_updates, manual_name_set) ==
    IF cache_updates = <<>> THEN <<>>
    ELSE LET upd == cache_updates[Len(cache_updates)]
             rest == unique_updates(SubSeq(cache_updates, 1, Len(cache_updates) - 1),
                                    manual_name_set)
         IN  IF upd.name = NoneVal \/ upd.name = "" THEN rest
             ELSE IF upd.name \in manual_name_set THEN rest
             ELSE IF upd.action = "set"
                  THEN IF Truthy(upd.url) /\ upd.url # NoneStrUrl
                       THEN DictSet(rest, [name |-> upd.name, action |-> "set",
                                           url |-> upd.url, reason |-> upd.reason])
                       ELSE rest
             ELSE IF upd.action = "delete"
                  THEN DictSet(rest, [name |-> upd.name, action |-> "delete",
                                      url |-> NoneUrl, reason |-> upd.reason])
             ELSE rest

\* apply_updates with a delete that leaves the entry in cache_map
RECURSIVE apply_updates_KeepOnDelete(_, _)
apply_updates_KeepOnDelete(cache_map, updates) ==
    IF updates = <<>> THEN cache_map
    ELSE LET upd == Head(updates)
         IN  apply_updates_KeepOnDelete(
                 IF upd.action = "set"
                 THEN DictSet(cache_map, SourceEntry(upd.name, upd.url, "cache"))
                 ELSE cache_map,
                 Tail(updates))

\* the loop that applies unique_updates to cache_map
RECURSIVE apply_updates(_, _)
apply_updates(cache_map, updates) ==
    IF updates = <<>> THEN cache_map
    ELSE LET upd == Head(updates)
         IN  apply_updates(
                 IF upd.action = "set"
                 THEN DictSet(cache_map, SourceEntry(upd.name, upd.url, "cache"))
                 ELSE IF upd.action = "delete" THEN DictPop(cache_map, upd.name)
                 ELSE cache_map,
                 Tail(updates))

\* step 7 of fetch_and_process_data: the cache items to save
reconcile(cache_list, manual_name_set, cache_updates) ==
    apply_updates(DictFromList(cache_list),
                  unique_updates(cache_updates, manual_name_set))

\* ------------------------------------------------- sort_articles_by_time
\* the placeholder '2024-01-01 00:00'
DefaultCreated == Time(0)

WithDefaultCreated(a) ==
    IF a.created = EmptyStr \/ a.created = Absent
    THEN [a EXCEPT !.created = DefaultCreated] ELSE a

CreatedKey(a) == a.created.t

\* sort_articles_by_time without the sort
sort_articles_by_time_NoSort(article_data) ==
    [i \in 1..Len(article_data) |-> WithDefaultCreated(article_data[i])]

sort_articles_by_time(article_data) ==
    LET filled == [i \in 1..Len(article_data) |-> WithDefaultCreated(article_data[i])]
    IN  SortedDesc(filled, [i \in 1..Len(filled) |-> CreatedKey(filled[i])])

\* ------------------------------------------- marge_data_from_json_url
\* list({v['link']: v for v in s}.values()): a link keeps the place of its
\* first article and the value of its last
DedupeByLink(s) ==
    LET firsts == SelectSeq([i \in 1..Len(s) |-> i],
                            LAMBDA i : \A j \in 1..(i - 1) : s[j].link # s[i].link)
        last(l) == CHOOSE i \in 1..Len(s) :
                      /\ s[i].link = l
                      /\ \A j \in (i + 1)..Len(s) : s[j].link # l
    IN  [k \in 1..Len(firsts) |-> s[last(s[firsts[k]].link)]]

\* the external document: the fetch or the JSON decoding fails, or the
\* document has no article_data, or it has one
ExternalFails == [kind |-> "fail", article_data |-> <<>>]

ExternalWithout == [kind |-> "nokey", article_data |-> <<>>]

ExternalData(arts) == [kind |-> "ok", article_data |-> arts]

\* marge_data_from_json_url appending without the removal of duplicates
marge_data_from_json_url_NoDedupe(data, marge_data) ==
    IF marge_data.kind = "ok"
    THEN [data EXCEPT !.article_data = @ \o marge_data.article_data]
    ELSE data

marge_data_from_json_url(data, marge_data) ==
    IF marge_data.kind = "ok"
    THEN [data EXCEPT !.article_data = DedupeByLink(@ \o marge_data.article_data)]
    ELSE data

\* --------------------------------------------------- deal_with_large_data
max_articles == 150

\* deal_with_large_data keeping the first max_articles articles and no more
deal_with_large_data_TopOnly(data) ==
    LET sorted == sort_articles_by_time(data.article_data)
    IN  IF Len(sorted) > max_articles
        THEN [data EXCEPT !.article_data = SubSeq(sorted, 1, max_articles),
                          !.article_num = max_articles]
        ELSE [data EXCEPT !.article_data = sorted]

deal_with_large_data(data) ==
    LET sorted == sort_articles_by_time(data.article_data)
    IN  IF Len(sorted) > max_articles
        THEN LET top_authors == {sorted[i].author : i \in 1..max_articles}
                 filtered_articles ==
                     SubSeq(sorted, 1, max_articles) \o
                     SelectSeq(SubSeq(sorted, max_articles + 1, Len(sorted)),
                               LAMBDA a : a.author \in top_authors)
             IN  [data EXCEPT !.article_data = filtered_articles,
                              !.article_num = Len(filtered_articles)]
        ELSE [data EXCEPT !.article_data = sorted]

\* ------------------------------------------------- fetch_and_process_data
VARIABLES
    pc,                 \* where the run is
    cache_file,         \* the cache file on disk: [exists, data]
    specific_RSS,       \* the manual overrides argument
    friend_doc,         \* what the friend-list URL serves: [kind, friends]
    cache_list,         \* _load_cache(cache_file)
    specific_and_cache, \* the source table given to every task
    manual_name_set,
    task,               \* the futures: [state, result] by position in friends
    active_friends,
    error_friends,
    total_articles,
    article_data,
    error_friends_info,
    cache_updates,
    result,             \* what the run returned, then the sorted data
    file_reads,         \* reads of the cache file in this run
    file_writes         \* writes of the cache file in this run

vars == <<pc, cache_file, specific_RSS, friend_doc, cache_list, specific_and_cache,
          manual_name_set, task, active_friends, error_friends, total_articles,
          article_data, error_friends_info, cache_updates, result, file_reads,
          file_writes, site_w, input, output>>

friends == friend_doc.friends

NoResult ==
    [kind |-> "running", friends_num |-> 0, active_num |-> 0, error_num |-> 0,
     article_num |-> 0, article_data |-> <<>>, error_friends_info |-> <<>>]

\* the inputs of the modelled runs
FriendPool ==
    {BadFriend} \cup
    {Friend("A", u) : u \in {BlogUrl("s1", FALSE), BlogUrl("s2", TRUE),
                             BlogUrl("s3", FALSE), BlogUrl("s4", FALSE), NoneUrl}} \cup
    {Friend("B", u) : u \in {BlogUrl("s1", TRUE), BlogUrl("s2", FALSE),
                             BlogUrl("s4", FALSE)}}

CacheFilePool ==
    { [exists |-> FALSE, data |-> <<>>],
      [exists |-> TRUE, data |-> <<CacheItem("A", StaleUrl)>>],
      [exists |-> TRUE, data |-> <<CacheItem("B", FeedUrl("s2", "/feed"))>>],
      [exists |-> TRUE, data |-> <<CacheItem("A", FeedUrl("s1", "/atom.xml")),
                                   CacheItem("B", FeedUrl("s4", "/index.xml"))>>] }

ManualPool ==
    { <<>>,
      <<CacheItem("A", FeedUrl("s2", "/feed"))>>,
      <<CacheItem("B", FeedUrl("s4", "/feed"))>>,
      <<CacheItem("A", EmptyUrl), CacheItem("B", FeedUrl("s1", "/atom.xml"))>> }

FriendDocPool ==
    { [kind |-> "fail", friends |-> <<>>],
      [kind |-> "array", friends |-> <<>>],
      [kind |-> "nokey", friends |-> <<>>] } \cup
    { [kind |-> "ok", friends |-> fs] : fs \in SeqsUpTo(FriendPool, MaxFriends) }

Init ==
    /\ pc = "start"
    /\ cache_file \in CacheFilePool
    /\ specific_RSS \in ManualPool
    /\ friend_doc \in FriendDocPool
    /\ cache_list = <<>>
    /\ specific_and_cache = <<>>
    /\ manual_name_set = {}
    /\ task = <<>>
    /\ active_friends = 0
    /\ error_friends = 0
    /\ total_articles = 0
    /\ article_data = <<>>
    /\ error_friends_info = <<>>
    /\ cache_updates = <<>>
    /\ result = NoResult
    /\ file_reads = 0
    /\ file_writes = 0
    /\ site_w = QuietSite
    /\ input = NoCall
    /\ output = NoCall

\* manual_list: the overrides tagged manual
manual_list(specific) ==
    [i \in 1..Len(specific) |-> SourceEntry(specific[i].name, specific[i].url, "manual")]

\* combined_map: the cache first, then the manual entries over it
combined_map(cache, manual) == DictFromList(cache \o manual)

\* steps 1 to 4: load the cache and build the source table
LoadSources ==
    /\ UNCHANGED <<site_w, input, output>>
    /\ pc = "start"
    /\ cache_list' = _load_cache(cache_file)
    /\ file_reads' = file_reads + 1
    /\ specific_and_cache' = combined_map(_load_cache(cache_file), manual_list(specific_RSS))
    /\ manual_name_set' = DictKeys(manual_list(specific_RSS))
    /\ pc' = "loaded"
    /\ UNCHANGED <<cache_file, specific_RSS, friend_doc, task, active_friends,
                   error_friends, total_articles, article_data, error_friends_info,
                   cache_updates, result, file_writes>>

\* step 5: a friend list that cannot be fetched or decoded returns None
GetFriendsFails ==
    /\ UNCHANGED <<site_w, input, output>>
    /\ pc = "loaded"
    /\ friend_doc.kind = "fail"
    /\ result' = [NoResult EXCEPT !.kind = "none"]
    /\ pc' = "returned"
    /\ UNCHANGED <<cache_file, specific_RSS, friend_doc, cache_list, specific_and_cache,
                   manual_name_set, task, active_friends, error_friends, total_articles,
                   article_data, error_friends_info, cache_updates, file_reads,
                   file_writes>>

\* friends_data.get of a document that is JSON but no object raises
\* AttributeError outside the try
GetFriendsRaises ==
    /\ UNCHANGED <<site_w, input, output>>
    /\ pc = "loaded"
    /\ friend_doc.kind = "array"
    /\ result' = [NoResult EXCEPT !.kind = "exception"]
    /\ pc' = "returned"
    /\ UNCHANGED <<cache_file, specific_RSS, friend_doc, cache_list, specific_and_cache,
                   manual_name_set, task, active_friends, error_friends, total_articles,
                   article_data, error_friends_info, cache_updates, file_reads,
                   file_writes>>

\* step 6, the submissions: one task per friend of the list
SubmitTasks ==
    /\ UNCHANGED <<site_w, input, output>>
    /\ pc = "loaded"
    /\ friend_doc.kind \in {"ok", "nokey"}
    /\ task' = [i \in 1..Len(friends) |-> [state |-> "submitted", result |-> Raised(0, 0)]]
    /\ pc' = "draining"
    /\ UNCHANGED <<cache_file, specific_RSS, friend_doc, cache_list, specific_and_cache,
                   manual_name_set, active_friends, error_friends, total_articles,
                   article_data, error_friends_info, cache_updates, result, file_reads,
                   file_writes>>

\* a worker of the pool runs process_friend for friend i
RunTask(i) ==
    /\ UNCHANGED <<site_w, input, output>>
    /\ pc = "draining"
    /\ task[i].state = "submitted"
    /\ task' = [task EXCEPT ![i] = [state |-> "finished",
                    result |-> process_friend(friends[i], Count, specific_and_cache)]]
    /\ UNCHANGED <<pc, cache_file, specific_RSS, friend_doc, cache_list,
                   specific_and_cache, manual_name_set, active_friends, error_friends,
                   total_articles, article_data, error_friends_info, cache_updates,
                   result, file_reads, file_writes>>

\* Collected with an except branch that does not count the friend
Collected_DropsRaised(r, friend, st) ==
    IF r.raised
    THEN st
    ELSE LET st1 == IF r.cache_update.action # "none"
                    THEN [st EXCEPT !.cache_updates = Append(@, r.cache_update)]
                    ELSE st
         IN  IF r.status = "active"
             THEN [st1 EXCEPT !.active_friends = @ + 1,
                              !.article_data = @ \o r.articles,
                              !.total_articles = @ + Len(r.articles)]
             ELSE [st1 EXCEPT !.error_friends = @ + 1,
                              !.error_friends_info = Append(@, friend)]

\* the counters after the result r of friend has been collected
Collected(r, friend, st) ==
    IF r.raised
    THEN [st EXCEPT !.error_friends = @ + 1,
                    !.error_friends_info = Append(@, friend)]
    ELSE LET st1 == IF r.cache_update.action # "none"
                    THEN [st EXCEPT !.cache_updates = Append(@, r.cache_update)]
                    ELSE st
         IN  IF r.status = "active"
             THEN [st1 EXCEPT !.active_friends = @ + 1,
                              !.article_data = @ \o r.articles,
                              !.total_articles = @ + Len(r.articles)]
             ELSE [st1 EXCEPT !.error_friends = @ + 1,
                              !.error_friends_info = Append(@, friend)]

\* the body of the as_completed loop for the finished future i
Collect(i) ==
    /\ UNCHANGED <<site_w, input, output>>
    /\ pc = "draining"
    /\ task[i].state = "finished"
    /\ LET st == Collected(task[i].result, friends[i],
                     [active_friends |-> active_friends, error_friends |-> error_friends,
                      total_articles |-> total_articles, article_data |-> article_data,
                      error_friends_info |-> error_friends_info,
                      cache_updates |-> cache_updates])
       IN  /\ active_friends' = st.active_friends
           /\ error_friends' = st.error_friends
           /\ total_articles' = st.total_articles
           /\ article_data' = st.article_data
           /\ error_friends_info' = st.error_friends_info
           /\ cache_updates' = st.cache_updates
    /\ task' = [task EXCEPT ![i].state = "collected"]
    /\ UNCHANGED <<pc, cache_file, specific_RSS, friend_doc, cache_list,
                   specific_and_cache, manual_name_set, result, file_reads, file_writes>>

\* steps 7 to 9: reconcile and save the cache, return the result
Finish ==
    /\ UNCHANGED <<site_w, input, output>>
    /\ pc = "draining"
    /\ \A i \in 1..Len(task) : task[i].state = "collected"
    /\ cache_file' = _save_cache(reconcile(cache_list, manual_name_set, cache_updates))
    /\ file_writes' = file_writes + 1
    /\ result' = [kind |-> "value", friends_num |-> Len(friends),
                  active_num |-> active_friends, error_num |-> error_friends,
                  article_num |-> total_articles, article_data |-> article_data,
                  error_friends_info |-> error_friends_info]
    /\ pc' = "returned"
    /\ UNCHANGED <<specific_RSS, friend_doc, cache_list, specific_and_cache,
                   manual_name_set, task, active_friends, error_friends, total_articles,
                   article_data, error_friends_info, cache_updates, file_reads>>

\* the caller sorts the returned data by time
SortByTime ==
    /\ UNCHANGED <<site_w, input, output>>
    /\ pc = "returned"
    /\ result.kind = "value"
    /\ result' = [result EXCEPT !.article_data = sort_articles_by_time(@)]
    /\ pc' = "sorted"
    /\ UNCHANGED <<cache_file, specific_RSS, friend_doc, cache_list, specific_and_cache,
                   manual_name_set, task, active_friends, error_friends, total_articles,
                   article_data, error_friends_info, cache_updates, file_reads,
                   file_writes>>

Next ==
    \/ LoadSources
    \/ GetFriendsFails
    \/ GetFriendsRaises
    \/ SubmitTasks
    \/ \E i \in 1..Len(task) : RunTask(i)
    \/ \E i \in 1..Len(task) : Collect(i)
    \/ Finish
    \/ SortByTime

Spec == Init /\ [][Next]_vars

\* ------------------------------------------- the fan-in on its own
\* The fan-in and the reconciliation for every result a task can hand back:
\* the run after the submissions, each future finished with a result of the
\* documented shape of process_friend's return value (cache_update action
\* set, delete or none), whatever the network made of it.
StagedPool(n) ==
    { CacheUpdate("none", n, NoneUrl, ""),
      CacheUpdate("set", n, FeedUrl("s1", "/atom.xml"), "auto_discovered"),
      CacheUpdate("set", n, FeedUrl("s2", "/rss.php"), "repair_cache"),
      CacheUpdate("set", n, EmptyUrl, "auto_discovered"),
      CacheUpdate("delete", n, NoneUrl, "remove_invalid") }

ResultPool ==
    { FriendResult(n, "error", <<>>, upd.url, "none", upd, "auto", 0, 0) :
         n \in {"A", "B"}, upd \in StagedPool("A") \cup StagedPool("B") }

InitRec ==
    /\ pc = "draining"
    /\ cache_file \in CacheFilePool
    /\ specific_RSS \in ManualPool
    /\ \E rs \in SeqsUpTo({r \in ResultPool : r.cache_update.name = r.name}, MaxFriends) :
          /\ friend_doc = [kind |-> "ok",
                           friends |-> [i \in 1..Len(rs) |->
                                           Friend(rs[i].name, BlogUrl("s1", FALSE))]]
          /\ task = [i \in 1..Len(rs) |-> [state |-> "finished", result |-> rs[i]]]
    /\ cache_list = _load_cache(cache_file)
    /\ specific_and_cache = combined_map(_load_cache(cache_file), manual_list(specific_RSS))
    /\ manual_name_set = DictKeys(manual_list(specific_RSS))
    /\ active_friends = 0
    /\ error_friends = 0
    /\ total_articles = 0
    /\ article_data = <<>>
    /\ error_friends_info = <<>>
    /\ cache_updates = <<>>
    /\ result = NoResult
    /\ file_reads = 1
    /\ file_writes = 0
    /\ site_w = QuietSite
    /\ input = NoCall
    /\ output = NoCall

NextRec ==
    \/ \E i \in 1..Len(task) : Collect(i)
    \/ Finish

SpecRec == InitRec /\ [][NextRec]_vars

\* ------------------------------------------------------- the next run
\* fetch_and_process_data is called again on the cache file the run before
\* has written, with manual overrides of its own; output keeps what that run
\* handed to _save_cache
StartNextRun ==
    /\ pc = "returned"
    /\ result.kind = "value"
    /\ output = NoCall
    /\ output' = [fn |-> "fetch_and_process_data",
                  saved |-> reconcile(cache_list, manual_name_set, cache_updates)]
    /\ specific_RSS' \in ManualPool
    /\ cache_list' = <<>>
    /\ specific_and_cache' = <<>>
    /\ manual_name_set' = {}
    /\ task' = <<>>
    /\ active_friends' = 0
    /\ error_friends' = 0
    /\ total_articles' = 0
    /\ article_data' = <<>>
    /\ error_friends_info' = <<>>
    /\ cache_updates' = <<>>
    /\ result' = NoResult
    /\ pc' = "start"
    /\ UNCHANGED <<cache_file, friend_doc, file_reads, file_writes, site_w, input>>

NextAgain ==
    \/ \E i \in 1..Len(task) : Collect(i)
    \/ Finish
    \/ StartNextRun
    \/ LoadSources

SpecAgain == InitRec /\ [][NextAgain]_vars

\* ---------------------------------------------------------------- claims
Names == {"A", "B"}

\* the run has returned an aggregate result (before or after the sort)
Returned == pc \in {"returned", "sorted"} /\ result.kind = "value"

\* what a sequence of items holds under name n
Lookup(items, n) ==
    IF \E i \in 1..Len(items) : items[i].name = n
    THEN [present |-> TRUE,
          url |-> items[CHOOSE i \in 1..Len(items) : items[i].name = n].url]
    ELSE [present |-> FALSE, url |-> NoneUrl]

NoDuplicateNames(items) ==
    \A i, j \in 1..Len(items) : items[i].name = items[j].name => i = j

\* the updates the tasks handed back, by position in the friend list
Staged(i) == task[i].result.cache_update

Effective(upd) ==
    \/ upd.action = "delete"
    \/ upd.action = "set" /\ Truthy(upd.url)

\* the collected updates for name n that are not inert, in collection order
EffectiveFor(n) == SelectSeq(cache_updates, LAMBDA upd : upd.name = n /\ Effective(upd))

\* C1 as stated: the cache persisted at the end of the run holds no entry
\* whose name is a manual override name.
C1_NoManualNamePersisted ==
    Returned => \A i \in 1..Len(cache_file.data) :
                    cache_file.data[i].name \notin manual_name_set

\* C1 amended: under a manual override name the persisted cache holds
\* exactly what the original cache held (nothing, or the original URL): no
\* staged update for a manual name is applied, in any combination.
C1_ManualNamesUntouched ==
    Returned => \A n \in manual_name_set :
                    Lookup(cache_file.data, n) = Lookup(cache_list, n)

C1_Witness ==
    /\ Returned
    /\ \E n \in manual_name_set :
          /\ ~Lookup(cache_list, n).present
          /\ \E i \in 1..Len(cache_updates) :
                cache_updates[i].name = n /\ Effective(cache_updates[i])
    /\ \E n \in manual_name_set :
          /\ Lookup(cache_list, n).present
          /\ \E i \in 1..Len(cache_updates) :
                cache_updates[i].name = n /\ cache_updates[i].action = "delete"

\* C9 as stated: for every name outside the manual set, every staged set
\* with a non-empty URL is the persisted URL of its name, every staged
\* delete leaves its name absent, a name with only inert updates or with no
\* update keeps its original entry, and the file is that mapping.
C9_EveryStagedUpdateApplied ==
    Returned =>
        /\ NoDuplicateNames(cache_file.data)
        /\ \A n \in Names \ manual_name_set :
              /\ \A i \in 1..Len(task) :
                    Staged(i).name = n =>
                       /\ (Staged(i).action = "set" /\ Truthy(Staged(i).url)
                             => Lookup(cache_file.data, n) =
                                   [present |-> TRUE, url |-> Staged(i).url])
                       /\ (Staged(i).action = "delete"
                             => ~Lookup(cache_file.data, n).present)
              /\ ((\A i \in 1..Len(task) : Staged(i).name = n => ~Effective(Staged(i)))
                    => Lookup(cache_file.data, n) = Lookup(cache_list, n))

\* C9 amended: for every name outside the manual set, the update collected
\* last among the staged updates of that name that are not inert decides:
\* a set with a non-empty URL makes that URL the persisted URL of the name, a
\* delete leaves the name absent; a name with only inert updates (none, set
\* with an empty URL) or with no update keeps its original entry; the file
\* holds every name once.
C9_LastStagedUpdateApplied ==
    Returned =>
        /\ NoDuplicateNames(cache_file.data)
        /\ \A i \in 1..Len(cache_file.data) : cache_file.data[i].name \in Names
        /\ \A n \in Names \ manual_name_set :
              LET eff == EffectiveFor(n)
              IN  IF eff = <<>>
                  THEN Lookup(cache_file.data, n) = Lookup(cache_list, n)
                  ELSE IF eff[Len(eff)].action = "set"
                  THEN Lookup(cache_file.data, n) =
                          [present |-> TRUE, url |-> eff[Len(eff)].url]
                  ELSE ~Lookup(cache_file.data, n).present

C9_Witness ==
    /\ Returned
    /\ \E n \in Names \ manual_name_set :
          /\ Lookup(cache_list, n).present
          /\ Len(EffectiveFor(n)) >= 2
          /\ EffectiveFor(n)[1].action = "set"
          /\ EffectiveFor(n)[Len(EffectiveFor(n))].action = "delete"
          /\ ~Lookup(cache_file.data, n).present

\* ---- claims about process_friend, read off the futures of a run
\* task i has run process_friend on friend i of a fetched friend list
Ran(i) == task[i].state \in {"finished", "collected"}

Res(i) == task[i].result

HasSource(i) == friends[i].wf /\ friends[i].name \in DictKeys(specific_and_cache)

Source(i) == DictGet(specific_and_cache, friends[i].name)

\* the articles the feed at url gives for friend i
Parsed(i, url) == parse_feed(url, Count, friends[i].blog_url).articles

Discovered(i) == check_feed(friends[i].blog_url)

\* friend i has a cached feed URL that gives no article
CachedFeedFails(i) ==
    /\ Ran(i)
    /\ HasSource(i)
    /\ Source(i).source = "cache"
    /\ friends[i].blog_url # NoneUrl
    /\ Parsed(i, Source(i).url) = <<>>

\* C2: a friend whose cached feed gives no article and for whom the repair
\* discovery finds no feed, or a feed that gives no article, ends with
\* status error, a staged delete with reason remove_invalid, and feed type
\* and feed URL reset to none.
C2_FailedRepairStagesDelete ==
    \A i \in 1..Len(task) :
        (/\ CachedFeedFails(i)
         /\ \/ Discovered(i).feed_type = "none"
            \/ Parsed(i, Discovered(i).feed_url) = <<>>)
        => /\ ~Res(i).raised
           /\ Res(i).status = "error"
           /\ Res(i).cache_update.action = "delete"
           /\ Res(i).cache_update.reason = "remove_invalid"
           /\ Res(i).feed_type = "none"
           /\ Res(i).feed_url = NoneUrl

\* C3: a friend whose cached feed gives no article and for whom the repair
\* discovery finds a feed that gives at least one article ends with status
\* active, source_used auto and a staged set with reason repair_cache and
\* the discovered URL.
C3_RepairStagesSet ==
    \A i \in 1..Len(task) :
        (/\ CachedFeedFails(i)
         /\ Discovered(i).feed_type # "none"
         /\ Parsed(i, Discovered(i).feed_url) # <<>>)
        => /\ ~Res(i).raised
           /\ Res(i).status = "active"
           /\ Res(i).source_used = "auto"
           /\ Res(i).cache_update =
                 CacheUpdate("set", friends[i].name, Discovered(i).feed_url, "repair_cache")

\* C4: for a friend whose source is a manual override, discovery is never
\* run, no cache update is staged, and a feed that gives no article gives
\* status error.
C4_ManualNeverRepaired ==
    \A i \in 1..Len(task) :
        (Ran(i) /\ HasSource(i) /\ Source(i).source = "manual")
        => /\ ~Res(i).raised
           /\ Res(i).discoveries = 0
           /\ Res(i).cache_update.action = "none"
           /\ Res(i).source_used = "manual"
           /\ (Parsed(i, Source(i).url) = <<>> => Res(i).status = "error")

C4_Witness ==
    \E i \in 1..Len(task) :
        /\ Ran(i) /\ HasSource(i) /\ Source(i).source = "manual"
        /\ Truthy(Source(i).url)
        /\ Parsed(i, Source(i).url) = <<>>
        /\ Res(i).status = "error"
        /\ Discovered(i).feed_type # "none"

\* C5: for a friend without a source-table entry, discovery runs once and
\* source_used is auto; a set with reason auto_discovered and the discovered
\* URL is staged exactly when discovery found a feed; a discovered feed that
\* gives n >= 1 articles gives status active with those n articles.
C5_AutoDiscovery ==
    \A i \in 1..Len(task) :
        (Ran(i) /\ friends[i].wf /\ ~HasSource(i))
        => /\ Res(i).discoveries = 1
           /\ Res(i).raised = Discovered(i).raised
           /\ ~Res(i).raised =>
                /\ Res(i).source_used = "auto"
                /\ Res(i).cache_update =
                      IF Discovered(i).feed_type # "none"
                      THEN CacheUpdate("set", friends[i].name,
                                       Discovered(i).feed_url, "auto_discovered")
                      ELSE CacheUpdate("none", friends[i].name, NoneUrl, "")
                /\ (Discovered(i).feed_type # "none"
                    /\ Parsed(i, Discovered(i).feed_url) # <<>>)
                   => /\ Res(i).status = "active"
                      /\ Len(Res(i).articles) = Len(Parsed(i, Discovered(i).feed_url))
                      /\ \A k \in 1..Len(Res(i).articles) :
                            /\ Res(i).articles[k].title =
                                  Parsed(i, Discovered(i).feed_url)[k].title
                            /\ Res(i).articles[k].created =
                                  Parsed(i, Discovered(i).feed_url)[k].published
                            /\ Res(i).articles[k].link =
                                  Parsed(i, Discovered(i).feed_url)[k].link
                            /\ Res(i).articles[k].author = friends[i].name

C5_Witness ==
    \E i \in 1..Len(task) :
        /\ Ran(i) /\ friends[i].wf /\ ~HasSource(i)
        /\ Res(i).status = "active"
        /\ Len(Res(i).articles) = Count
        /\ Res(i).cache_update.action = "set"
        /\ Res(i).cache_update.url = FeedUrl("s1", "/atom.xml")

\* ---- claims about the fan-out and the fan-in
\* the friend list was fetched, so the tasks were submitted
Fetched == friend_doc.kind \in {"ok", "nokey"}

Ended == pc \in {"returned", "sorted"}

\* the positions whose task came back active, and those that count as errors
ActiveTasks == {i \in 1..Len(task) : ~Res(i).raised /\ Res(i).status = "active"}

ErrorTasks == {i \in 1..Len(task) : Res(i).raised \/ Res(i).status # "active"}

\* C6: a task that raises, or a friend entry that is no triple, counts as
\* one error and never aborts the batch: every run that fetched its friend
\* list drains all tasks and returns counts with active_num + error_num =
\* friends_num, each friend counted once, on the side its task ended on.
C6_EveryFriendCountedOnce ==
    (Ended /\ Fetched) =>
        /\ result.kind = "value"
        /\ Len(task) = Len(friends)
        /\ \A i \in 1..Len(task) : task[i].state = "collected"
        /\ result.friends_num = Len(friends)
        /\ result.active_num + result.error_num = result.friends_num
        /\ result.active_num = Cardinality(ActiveTasks)
        /\ result.error_num = Cardinality(ErrorTasks)
        /\ Len(result.error_friends_info) = result.error_num

C6_Witness ==
    /\ Ended /\ Fetched
    /\ \E i, j \in 1..Len(task) :
          /\ Res(i).raised
          /\ ~friends[j].wf
    /\ result.error_num = 2

\* the articles of the active tasks, concatenated in submission order
RECURSIVE SubmissionArticles(_)
SubmissionArticles(n) ==
    IF n = 0 THEN <<>>
    ELSE SubmissionArticles(n - 1) \o
         (IF n \in ActiveTasks THEN Res(n).articles ELSE <<>>)

Occurrences(s, x) == Cardinality({i \in 1..Len(s) : s[i] = x})

SameArticles(s, t) ==
    /\ Len(s) = Len(t)
    /\ \A x \in Range(s) \cup Range(t) : Occurrences(s, x) = Occurrences(t, x)

Timestamps(s) == [i \in 1..Len(s) |-> s[i].created]

\* C7 as stated: the sorted article list is the same for every order in
\* which the tasks complete, so it is the list that the submission order
\* gives, also when several articles carry equal timestamps.
C7_SortedIndependentOfCompletion ==
    pc = "sorted" =>
        result.article_data = sort_articles_by_time(SubmissionArticles(Len(task)))

\* C7 amended: for every completion order the sorted list holds the same
\* articles and the same sequence of timestamps as the list that the
\* submission order gives; only articles of equal timestamp may change
\* places.
C7_SortedUpToTies ==
    pc = "sorted" =>
        LET canon == sort_articles_by_time(SubmissionArticles(Len(task)))
        IN  /\ SameArticles(result.article_data, canon)
            /\ Timestamps(result.article_data) = Timestamps(canon)
            /\ \A i, j \in 1..Len(result.article_data) :
                  i < j => result.article_data[i].created.t >= result.article_data[j].created.t

C7_Witness ==
    /\ pc = "sorted"
    /\ result.article_data # sort_articles_by_time(SubmissionArticles(Len(task)))
    /\ \E i \in 1..(Len(result.article_data) - 1) :
          /\ result.article_data[i].created = result.article_data[i + 1].created
          /\ result.article_data[i].author # result.article_data[i + 1].author

\* the staged updates of the tasks, in submission order
RECURSIVE SubmissionUpdates(_)
SubmissionUpdates(n) ==
    IF n = 0 THEN <<>>
    ELSE SubmissionUpdates(n - 1) \o
         (IF ~Res(n).raised /\ Staged(n).action # "none" THEN <<Staged(n)>> ELSE <<>>)

Stagers(n) ==
    {i \in 1..Len(task) :
        ~Res(i).raised /\ Staged(i).action \in {"set", "delete"} /\ Staged(i).name = n}

\* the persisted cache is the one that the updates give in submission order
CacheAsSubmitted ==
    Range(cache_file.data) =
    Range(_save_cache(reconcile(cache_list, manual_name_set,
                                SubmissionUpdates(Len(task)))).data)

DistinctFriendNames ==
    \A i, j \in 1..Len(friends) :
        (friends[i].wf /\ friends[j].wf /\ friends[i].name = friends[j].name) => i = j

\* C8 as stated: for any friend list at most one task stages a cache update
\* for a given friend name, and the reconciled cache does not depend on the
\* order in which the tasks complete.
C8_OneUpdatePerName ==
    (Ended /\ result.kind = "value") =>
        /\ \A n \in Names : Cardinality(Stagers(n)) <= 1
        /\ CacheAsSubmitted

\* C8 amended: a task stages a cache update under the name of its own
\* friend only; so for a friend list whose names are pairwise distinct at
\* most one task stages an update for a given name and the reconciled cache
\* (as a mapping) does not depend on the order in which the tasks complete.
C8_OneUpdatePerDistinctName ==
    (Ended /\ result.kind = "value") =>
        /\ \A i \in 1..Len(task) :
              (~Res(i).raised /\ Staged(i).action # "none")
                 => (friends[i].wf /\ Staged(i).name = friends[i].name)
        /\ DistinctFriendNames =>
              /\ \A n \in Names : Cardinality(Stagers(n)) <= 1
              /\ CacheAsSubmitted

C8_Witness ==
    /\ Ended /\ result.kind = "value"
    /\ DistinctFriendNames
    /\ Cardinality(Stagers("A")) = 1
    /\ Cardinality(Stagers("B")) = 1
    /\ cache_updates # SubmissionUpdates(Len(task))

\* C10: a friend list that cannot be retrieved makes the run return None
\* without a task and without a write of the cache file, and nothing else
\* ends the run without a result.
C10_OnlyFetchFailureAborts ==
    pc = "returned" =>
        /\ friend_doc.kind = "fail"
              => (result.kind = "none" /\ task = <<>> /\ file_writes = 0)
        /\ result.kind # "value" => friend_doc.kind = "fail"


\* ---------------------------------------------------------------- C11
\* C11: every result that process_friend returns, on every path (malformed
\* friend, preset source, discovery, feed without articles), has the status
\* active exactly when its article list is not empty, and error otherwise.
C11_StatusIffArticles ==
    \A i \in DOMAIN task :
        (Ran(i) /\ ~Res(i).raised) =>
            /\ Res(i).status \in {"active", "error"}
            /\ (Res(i).status = "active") <=> (Res(i).articles # <<>>)

\* a run in which one friend came back active with articles and another
\* came back in error although a feed had been found for it
C11_Witness ==
    \E i, j \in DOMAIN task :
        /\ Ran(i) /\ Ran(j)
        /\ ~Res(i).raised /\ ~Res(j).raised
        /\ Res(i).status = "active" /\ Res(i).articles # <<>>
        /\ Res(j).status = "error" /\ Res(j).articles = <<>>
        /\ Res(j).feed_type # "none"


\* ------------------------------------------------- one function at a time
\* The functions of the module called on their own, against a site "w"
\* whose answers are drawn at the start.
MaxLive == 2

MaxEntries == 3

CandidatePaths == {possible_feeds[i][2] : i \in DOMAIN possible_feeds}

\* the answers that are not a plain 404
LiveKinds == {"exc", "page", "xml", "marker"}

\* a site answers 404 except on at most MaxLive of the candidate paths
SiteResponses ==
    UNION {[S -> LiveKinds] :
              S \in {T \in SUBSET CandidatePaths : Cardinality(T) <= MaxLive}}

\* the time fields of a feed entry
StampPool ==
    {[published |-> pb, updated |-> ud] :
        pb \in {Time(1), Time(2), Time(3), Absent, Garbage}, ud \in {Absent, Time(2)}}

\* the documents of up to MaxEntries entries, and the fetch that fails
DocPool ==
    {[ok |-> FALSE, entries |-> <<>>]} \cup
    {[ok |-> TRUE, entries |->
         [i \in 1..Len(st) |->
             Entry("e" \o ToString(i), st[i].published, st[i].updated,
                   Url("http", "w", "/e" \o ToString(i), ""))]] :
        st \in SeqsUpTo(StampPool, MaxEntries)}

SitePool ==
    {[responses |-> r, doc |-> QuietSite.doc] : r \in SiteResponses} \cup
    {[responses |-> <<>>, doc |-> d] : d \in DocPool}

\* no task of fetch_and_process_data is under way
NoTasks ==
    /\ cache_file = [exists |-> FALSE, data |-> <<>>]
    /\ specific_RSS = <<>>
    /\ friend_doc = [kind |-> "ok", friends |-> <<>>]
    /\ cache_list = <<>>
    /\ specific_and_cache = <<>>
    /\ manual_name_set = {}
    /\ task = <<>>
    /\ active_friends = 0
    /\ error_friends = 0
    /\ total_articles = 0
    /\ article_data = <<>>
    /\ error_friends_info = <<>>
    /\ cache_updates = <<>>
    /\ file_reads = 0
    /\ file_writes = 0

NoRun == NoTasks /\ result = NoResult

InitFn ==
    /\ pc = "idle"
    /\ site_w \in SitePool
    /\ input = NoCall
    /\ output = NoCall
    /\ NoRun

runVars ==
    <<cache_file, specific_RSS, friend_doc, cache_list, specific_and_cache,
      manual_name_set, task, active_friends, error_friends, total_articles,
      article_data, error_friends_info, cache_updates, result, file_reads,
      file_writes>>

\* check_feed(blog_url, session) on the root of the site, with or without
\* the trailing slash
CallCheckFeed ==
    /\ pc = "idle"
    /\ \E sl \in BOOLEAN :
          /\ input' = [fn |-> "check_feed", blog_url |-> BlogUrl("w", sl)]
          /\ output' = [fn |-> "check_feed", value |-> check_feed(BlogUrl("w", sl))]
    /\ pc' = "called"
    /\ UNCHANGED <<site_w, runVars>>

\* parse_feed(url, session, count, blog_url) on the document of the site
CallParseFeed ==
    /\ pc = "idle"
    /\ \E count \in 1..Count :
          /\ input' = [fn |-> "parse_feed", url |-> FeedUrl("w", "/feed"),
                       count |-> count, blog_url |-> BlogUrl("w", FALSE)]
          /\ output' = [fn |-> "parse_feed",
                        value |-> parse_feed(FeedUrl("w", "/feed"), count,
                                             BlogUrl("w", FALSE))]
    /\ pc' = "called"
    /\ UNCHANGED <<site_w, runVars>>

NextFn == CallCheckFeed \/ CallParseFeed

SpecFn == InitFn /\ [][NextFn]_vars

\* the links and the site URLs replace_non_domain is called with
LinkPool ==
    {Url(sc, h, p, q) :
        sc \in {"http", "https"},
        h \in {"localhost", "localhost:4000", "127.0.0.1", "10.0.0.1:80",
               "mylocalhost.example", "s1"},
        p \in {"", "/a2", "//a2", "/http://localhost/x"},
        q \in {"", "x=1"}}

SiteUrlPool ==
    {Url(sc, h, p, "") :
        sc \in {"http", "https"},
        h \in {"s1", "localhost", "127.0.0.1"},
        p \in {"", "/", "/blog", "/blog/"}}
    \cup {EmptyUrl, NoneUrl}

\* replace_non_domain(link, blog_url)
CallReplaceNonDomain ==
    /\ pc = "idle"
    /\ \E link \in LinkPool, blog_url \in SiteUrlPool :
          /\ input' = [fn |-> "replace_non_domain", link |-> link,
                       blog_url |-> blog_url]
          /\ output' = [fn |-> "replace_non_domain", calls |-> 1, arg |-> link,
                        value |-> replace_non_domain(link, blog_url)]
    /\ pc' = "called"
    /\ UNCHANGED <<site_w, runVars>>

\* replace_non_domain called on what it returned, with the same blog_url
CallReplaceNonDomainAgain ==
    /\ pc = "called"
    /\ output.fn = "replace_non_domain"
    /\ output.calls = 1
    /\ output' = [fn |-> "replace_non_domain", calls |-> 2, arg |-> output.value,
                  value |-> replace_non_domain(output.value, input.blog_url)]
    /\ UNCHANGED <<pc, input, site_w, runVars>>

InitUrl ==
    /\ pc = "idle"
    /\ site_w = QuietSite
    /\ input = NoCall
    /\ output = NoCall
    /\ NoRun

NextUrl == CallReplaceNonDomain \/ CallReplaceNonDomainAgain

SpecUrl == InitUrl /\ [][NextUrl]_vars

\* ------------------------------------- after fetch_and_process_data
\* The operations a caller applies to the returned result: the merge with an
\* external document and the cap, in any order and any number of times.
MaxLocal == 2

MaxExternal == 2

Article(t, c, l, au) ==
    [title |-> t, created |-> c, link |-> l, author |-> au, avatar |-> "av.png"]

\* articles of the friends A and B; both may carry the same link
LocalArticlePool ==
    {Article("t", Time(c), Url("http", "s1", pth, ""), au) :
        c \in {1, 3}, pth \in {"/a1", "/a2"}, au \in {"A", "B"}}

\* articles of the external document: a link the local data may have, and
\* one it has not
ExternalArticlePool ==
    {Article("x", Time(2), Url("http", h, "/a1", ""), "X") : h \in {"s1", "x1"}}

ExternalPool ==
    {ExternalFails, ExternalWithout} \cup
    {ExternalData(arts) : arts \in SeqsUpTo(ExternalArticlePool, MaxExternal)}

\* what fetch_and_process_data returns for the article list arts
ReturnedWith(arts) ==
    LET authors == {arts[i].author : i \in 1..Len(arts)}
    IN  [kind |-> "value", friends_num |-> 2, active_num |-> Cardinality(authors),
         error_num |-> 2 - Cardinality(authors), article_num |-> Len(arts),
         article_data |-> arts, error_friends_info |-> <<>>]

ReturnedPool == {ReturnedWith(arts) : arts \in SeqsUpTo(LocalArticlePool, MaxLocal)}

PostPcs == {"returned", "merged", "capped"}

InitPost ==
    /\ pc = "returned"
    /\ result \in ReturnedPool
    /\ site_w = QuietSite
    /\ input = NoCall
    /\ output = NoCall
    /\ NoTasks

postVars ==
    <<cache_file, specific_RSS, friend_doc, cache_list, specific_and_cache,
      manual_name_set, task, active_friends, error_friends, total_articles,
      article_data, error_friends_info, cache_updates, file_reads, file_writes,
      site_w, output>>

\* result = marge_data_from_json_url(result, marge_json_url)
MergeData ==
    /\ pc \in PostPcs
    /\ result.kind = "value"
    /\ \E marge_data \in ExternalPool :
          /\ input' = [fn |-> "marge_data_from_json_url", data |-> result,
                       marge_data |-> marge_data]
          /\ result' = marge_data_from_json_url(result, marge_data)
    /\ pc' = "merged"
    /\ UNCHANGED postVars

\* result = deal_with_large_data(result)
DealWithLargeData ==
    /\ pc \in PostPcs
    /\ result.kind = "value"
    /\ input' = [fn |-> "deal_with_large_data", data |-> result,
                 marge_data |-> ExternalFails]
    /\ result' = deal_with_large_data(result)
    /\ pc' = "capped"
    /\ UNCHANGED postVars

NextPost == MergeData \/ DealWithLargeData

SpecPost == InitPost /\ [][NextPost]_vars

\* article lists around max_articles long: n articles, the time of the
\* i-th by order, the author rare for the positions in R
LargeList(n, order, R) ==
    [i \in 1..n |->
        Article("t",
                Time(CASE order = "asc" -> i
                       [] order = "desc" -> n + 1 - i
                       [] OTHER -> i % 5),
                Url("http", "s1", "/p" \o ToString(i), ""),
                IF i \in R THEN "rare" ELSE "a" \o ToString(i % 3))]

LargePool ==
    {ReturnedWith(LargeList(n, order, R)) :
        n \in {max_articles - 1, max_articles, max_articles + 1, max_articles + 3},
        order \in {"asc", "desc", "ties"},
        R \in SUBSET {1, 2, max_articles, max_articles + 3}}

InitCap ==
    /\ pc = "returned"
    /\ result \in LargePool
    /\ site_w = QuietSite
    /\ input = NoCall
    /\ output = NoCall
    /\ NoTasks

NextCap == DealWithLargeData

SpecCap == InitCap /\ [][NextCap]_vars

\* ---------------------------------------------------------------- C13
CheckFeedCalled == pc = "called" /\ output.fn = "check_feed"

\* what the site answers at candidate k
KindAt(k) ==
    IF possible_feeds[k][2] \in DOMAIN site_w.responses
    THEN site_w.responses[possible_feeds[k][2]] ELSE "404"

\* the candidates that answer 200 with a feed content type or a feed marker
Matching == {k \in DOMAIN possible_feeds : KindAt(k) \in {"xml", "marker"}}

FirstMatching == CHOOSE k \in Matching : \A m \in Matching : k <= m

\* C13: check_feed probes the candidate paths in the order of the list and
\* returns the first candidate that looks like a feed (HTTP 200 with an
\* xml/rss/atom content type or a feed marker in the head of the body); no
\* candidate after the first match is probed; a transport failure counts as
\* no match and the probing goes on; when no candidate matches the result is
\* the sentinel (none, site URL).  The result is fixed by the site's answers.
C13_FirstMatchInListOrder ==
    CheckFeedCalled =>
        LET r == output.value
            root == Url("http", "w", "", "")
        IN  /\ ~r.raised
            /\ \A k \in 1..Len(r.probed) :
                  r.probed[k] = [root EXCEPT !.path = possible_feeds[k][2]]
            /\ IF Matching # {}
               THEN /\ Len(r.probed) = FirstMatching
                    /\ r.feed_type = possible_feeds[FirstMatching][1]
                    /\ r.feed_url = r.probed[FirstMatching]
               ELSE /\ Len(r.probed) = Len(possible_feeds)
                    /\ r.feed_type = "none"
                    /\ r.feed_url = input.blog_url

\* a transport failure comes before the first match, which matches by the
\* head of its body, and the probing stops there
C13_Witness ==
    /\ CheckFeedCalled
    /\ Matching # {}
    /\ FirstMatching > 1
    /\ \E k \in 1..(FirstMatching - 1) : KindAt(k) = "exc"
    /\ KindAt(FirstMatching) = "marker"
    /\ Len(output.value.probed) = FirstMatching
    /\ output.value.feed_type = possible_feeds[FirstMatching][1]


\* ---------------------------------------------------------- C14, C15
ParseFeedCalled == pc = "called" /\ output.fn = "parse_feed"

Min(a, b) == IF a <= b THEN a ELSE b

\* the entry carries a time that format_published_time can read
Timed(entry) == EntryPublished(entry) # EmptyStr

\* C14: for every feed document that is fetched and parsed, parse_feed
\* returns exactly min(max_count, number of entries) articles, in
\* non-increasing order of their normalized timestamps, and they are the
\* newest ones: no entry left out is newer than an article returned.
C14_NewestMinCount ==
    (ParseFeedCalled /\ site_w.doc.ok) =>
        LET arts == output.value.articles
            entries == site_w.doc.entries
        IN  /\ Len(arts) = Min(input.count, Len(entries))
            /\ \A i, j \in 1..Len(arts) :
                  i < j => PublishedKey(arts[i]) >= PublishedKey(arts[j])
            /\ \A i \in 1..Len(entries) :
                  \/ \E j \in 1..Len(arts) : arts[j].title = entries[i].title
                  \/ \A j \in 1..Len(arts) :
                        PublishedKey(arts[j]) >= EntryPublished(entries[i]).t

\* C14 for the documents in which every entry carries a readable time
C14_NewestMinCountOfTimed ==
    (\A i \in 1..Len(site_w.doc.entries) : Timed(site_w.doc.entries[i]))
        => C14_NewestMinCount

\* C15: an entry without published and updated, or with a time no format
\* reads, is returned by parse_feed with the empty timestamp, and the other
\* entries of the document are returned as well (here for documents of no
\* more than max_count entries, where nothing is cut off).
C15_UntimedEntryReturnedEmpty ==
    (/\ ParseFeedCalled
     /\ site_w.doc.ok
     /\ Len(site_w.doc.entries) <= input.count) =>
        LET arts == output.value.articles
            entries == site_w.doc.entries
        IN  \A i \in 1..Len(entries) :
               \E j \in 1..Len(arts) :
                  /\ arts[j].title = entries[i].title
                  /\ ~Timed(entries[i]) => arts[j].published = EmptyStr

\* what the code does with such a document: one entry without a readable
\* time, next to entries with one, and nothing at all is returned
C15_UntimedEntryEmptiesFeed ==
    /\ ParseFeedCalled
    /\ site_w.doc.ok
    /\ \E i, j \in 1..Len(site_w.doc.entries) :
          ~Timed(site_w.doc.entries[i]) /\ Timed(site_w.doc.entries[j])
    /\ output.value.articles = <<>>


\* ---------------------------------------------------------------- C18
ReplacedOnce == output.fn = "replace_non_domain" /\ output.calls = 1

ReplacedTwice == output.fn = "replace_non_domain" /\ output.calls = 2

\* C18: replace_non_domain is idempotent for every link and every trusted
\* site URL: applied to its own result it returns that result.
C18_Idempotent == ReplacedTwice => output.value = output.arg

\* C18, for the trusted site URLs whose own host is neither localhost-like
\* nor a dotted quad and the links whose path does not read as an absolute
\* URL: applied to its own result, replace_non_domain returns that result.
C18_IdempotentOnPublicSite ==
    (/\ ReplacedTwice
     /\ ~IsLocalNetloc(input.blog_url.netloc)
     /\ ~EmbedsUrl(input.link.path)) => output.value = output.arg

\* a link on localhost was moved to a public site that has a path of its
\* own, and the second call left it where the first one put it
C18_Witness ==
    /\ ReplacedTwice
    /\ IsLocalNetloc(input.link.netloc)
    /\ input.blog_url.netloc = "s1"
    /\ input.blog_url.path = "/blog/"
    /\ output.arg # input.link
    /\ output.arg.path = "/blog/a2"
    /\ output.value = output.arg

\* ---------------------------------------------------------------- C20
\* C20: when the host of the link is localhost or a bare dotted quad,
\* replace_non_domain returns a URL with the host of the trusted site, the
\* path and query of the link, and the scheme https whatever the scheme of
\* the link or of the site; a link on any other host is returned unchanged.
C20_SiteHostOverHttps ==
    (/\ ReplacedOnce
     /\ input.blog_url \notin {EmptyUrl, NoneUrl}
     /\ input.blog_url.path = ""
     /\ input.link.path = "/a2") =>
        IF input.link.netloc \in {"localhost", "127.0.0.1"}
        THEN output.value = Url("https", input.blog_url.netloc,
                                input.link.path, input.link.query)
        ELSE input.link.netloc = "s1" => output.value = input.link

\* what the code does: the scheme of the result is the scheme of the site
C20_SchemeOfSite ==
    (/\ ReplacedOnce
     /\ input.blog_url \notin {EmptyUrl, NoneUrl}
     /\ input.blog_url.path = ""
     /\ input.link.path = "/a2") =>
        IF input.link.netloc \in {"localhost", "127.0.0.1"}
        THEN output.value = Url(input.blog_url.scheme, input.blog_url.netloc,
                                input.link.path, input.link.query)
        ELSE input.link.netloc = "s1" => output.value = input.link


\* ---------------------------------------------------------------- C12
\* C12: after any sequence of fetch_and_process_data, the merge and the cap,
\* the article_num of the statistics is the number of articles in
\* article_data.
C12_ArticleNumIsLength ==
    (pc \in PostPcs /\ result.kind = "value") =>
        result.article_num = Len(result.article_data)

\* ---------------------------------------------------------------- C17
Merged == pc = "merged" /\ input.fn = "marge_data_from_json_url"

LinksOf(arts) == {arts[i].link : i \in 1..Len(arts)}

\* C17: after a merge with an external document that was fetched and carries
\* article_data, no two articles share a link, every link of the local and
\* of the external articles is still there, and the article kept for a link
\* is the last one seen in local-then-external order, so an external article
\* replaces a local one of the same link; when the fetch of the external
\* document fails the data is returned as it was.
C17_MergeDedupesByLink ==
    Merged =>
        LET before == input.data.article_data
            ext == input.marge_data.article_data
            all == before \o ext
            out == result.article_data
        IN  /\ input.marge_data.kind = "ok" =>
                /\ \A i, j \in 1..Len(out) : out[i].link = out[j].link => i = j
                /\ LinksOf(out) = LinksOf(before) \cup LinksOf(ext)
                /\ \A i \in 1..Len(out) :
                      \E k \in 1..Len(all) :
                          /\ all[k] = out[i]
                          /\ \A m \in (k + 1)..Len(all) : all[m].link # out[i].link
            /\ input.marge_data.kind = "fail" => result = input.data

\* a local article and an external one of the same link: the external one
\* is kept, in the place of the local one, next to a link only local
C17_Witness ==
    /\ Merged
    /\ input.marge_data.kind = "ok"
    /\ Len(input.data.article_data) = 2
    /\ Len(result.article_data) = 2
    /\ result.article_data[1].author = "X"
    /\ result.article_data[1].link = input.data.article_data[1].link
    /\ result.article_data[2] = input.data.article_data[2]

\* ---------------------------------------------------------------- C16
Capped == pc = "capped" /\ input.fn = "deal_with_large_data"

\* C16: the output of deal_with_large_data is sorted descending by time; for
\* an input of more than max_articles articles it is the first max_articles
\* of the sorted list followed by the later articles whose author is among
\* the authors of those first ones, so no longer than max_articles plus the
\* number of such later articles, with none of the first ones dropped; for
\* an input of at most max_articles articles no article is dropped.
C16_CapKeepsTopAndTheirAuthors ==
    Capped =>
        LET before == input.data.article_data
            sorted == sort_articles_by_time(before)
            out == result.article_data
            n == Len(before)
        IN  /\ \A i \in 1..(Len(out) - 1) : CreatedKey(out[i]) >= CreatedKey(out[i + 1])
            /\ IF n > max_articles
               THEN LET top == {sorted[i].author : i \in 1..max_articles}
                        later == {i \in (max_articles + 1)..n : sorted[i].author \in top}
                    IN  /\ SubSeq(out, 1, max_articles) = SubSeq(sorted, 1, max_articles)
                        /\ Len(out) = max_articles + Cardinality(later)
                        /\ LinksOf(out) =
                              {sorted[i].link : i \in (1..max_articles) \cup later}
                        /\ \A i \in (max_articles + 1)..Len(out) : out[i].author \in top
               ELSE /\ Len(out) = n
                    /\ LinksOf(out) = LinksOf(before)

\* more than max_articles articles came in; of the later ones, one was kept
\* for its author and one was dropped
C16_Witness ==
    /\ Capped
    /\ Len(input.data.article_data) = max_articles + 3
    /\ Len(result.article_data) > max_articles
    /\ Len(result.article_data) < max_articles + 3
    /\ result.article_num = Len(result.article_data)


\* ---------------------------------------------------------------- C19
\* the next run has loaded its sources from the file the run before wrote
LoadedAgain == pc = "loaded" /\ output.fn = "fetch_and_process_data"

\* the items as _load_cache returns them: tagged cache
AsCache(items) ==
    [i \in 1..Len(items) |-> SourceEntry(items[i].name, items[i].url, "cache")]

\* C19: a cache produced by the reconciliation, written with _save_cache and
\* read back with _load_cache, gives the same name-to-URL mapping, and so
\* the source table of the next run holds exactly the entries the run before
\* persisted, with origin cache.
C19_NextTableIsPersistedCache ==
    LoadedAgain =>
        /\ cache_list = AsCache(output.saved)
        /\ specific_and_cache = AsCache(output.saved)

\* C19, with the manual overrides of the next run: the cache list that run
\* loads holds exactly the persisted entries, with origin cache, and its
\* source table holds them under every name that has no manual override and
\* the manual entry under every name that has one.
C19_NextCacheIsPersisted ==
    LoadedAgain =>
        /\ cache_list = AsCache(output.saved)
        /\ NoDuplicateNames(specific_and_cache)
        /\ \A n \in Names :
              LET e == Lookup(specific_and_cache, n)
              IN  IF n \in manual_name_set
                  THEN /\ e.present
                       /\ e.url = Lookup(specific_RSS, n).url
                       /\ DictGet(specific_and_cache, n).source = "manual"
                  ELSE /\ e = Lookup(output.saved, n)
                       /\ e.present => DictGet(specific_and_cache, n).source = "cache"

\* the run before persisted two entries; the next run reads both back, one
\* is in its source table with origin cache, the other gave way to a manual
\* override
C19_Witness ==
    /\ LoadedAgain
    /\ Len(output.saved) = 2
    /\ cache_list = AsCache(output.saved)
    /\ manual_name_set = {"B"}
    /\ DictGet(specific_and_cache, "A").source = "cache"
    /\ DictGet(specific_and_cache, "B").source = "manual"
    /\ Lookup(output.saved, "B").present


\* ---------------------------------------------------------------- C21
\* a task has been submitted and its result has not been collected yet
InFlight == \E i \in DOMAIN task : task[i].state # "collected"

\* the run is over, by a return or by an exception
RunOver == pc \in {"returned", "sorted"}

\* where the reads and the writes of the cache file stand in a run
FileAccessInOrder ==
    /\ file_reads <= 1
    /\ file_writes <= 1
    /\ pc = "draining" => file_reads = 1
    /\ InFlight => file_writes = 0

\* a step that reads or writes the cache file is taken with no task in
\* flight, before and after it
FileStepOutsideFanOut ==
    (file_reads' # file_reads \/ file_writes' # file_writes \/ cache_file' # cache_file)
        => (~InFlight /\ ~InFlight')

\* a step in which a worker finishes its task changes nothing but the task
WorkerStepReturnsOnly ==
    (\E i \in DOMAIN task :
        /\ i \in DOMAIN task'
        /\ task[i].state = "submitted"
        /\ task'[i].state = "finished")
        => UNCHANGED <<specific_and_cache, manual_name_set, cache_list, cache_file,
                       active_friends, error_friends, total_articles, article_data,
                       error_friends_info, cache_updates, result>>

\* C21: in every run that retrieves the friend list the cache file is read
\* exactly once, before any task is submitted, and written exactly once,
\* after every task has completed and its result has been collected; no read
\* or write of the file happens while a task is in flight, and a worker task
\* never changes the source table or the aggregate counters.
C21_ReadOnceWriteOnce ==
    /\ [](FileAccessInOrder
          /\ ((RunOver /\ friend_doc.kind # "fail")
                 => (file_reads = 1 /\ file_writes = 1)))
    /\ [][FileStepOutsideFanOut /\ WorkerStepReturnsOnly]_vars

\* C21 for the runs whose friend-list document is an object
C21_ReadOnceWriteOnceOfObject ==
    /\ [](FileAccessInOrder
          /\ ((RunOver /\ friend_doc.kind \in {"ok", "nokey"})
                 => (file_reads = 1 /\ file_writes = 1)))
    /\ [][FileStepOutsideFanOut /\ WorkerStepReturnsOnly]_vars

\* what the code does with a document that is JSON but no object: the cache
\* file has been read, the run ends by an exception, nothing is written
C21_RetrievedButNotWritten ==
    /\ RunOver
    /\ friend_doc.kind = "array"
    /\ result.kind = "exception"
    /\ file_reads = 1
    /\ file_writes = 0


\* ---------------------------------------------------------------- C22
\* C22: every invocation of process_friend ends having run the discovery at
\* most once and the feed parser at most twice, the second parse only in the
\* repair of a cached source; nothing is tried again after that.
C22_BoundedOneShot ==
    \A i \in DOMAIN task :
        Ran(i) =>
            /\ Res(i).discoveries \in {0, 1}
            /\ Res(i).parses \in {0, 1, 2}
            /\ Res(i).parses = 2 =>
                  /\ HasSource(i)
                  /\ Source(i).source \in {"cache", "unknown"}
                  /\ Res(i).discoveries = 1
            /\ (friends[i].wf /\ ~HasSource(i)) => Res(i).parses <= 1

\* of two invocations that have ended, one took its source from the table
\* and parsed it without any discovery, the other discovered its feed once
\* and parsed it once
C22_Witness ==
    \E i, j \in DOMAIN task :
        /\ Ran(i) /\ Ran(j)
        /\ HasSource(i)
        /\ Res(i).discoveries = 0 /\ Res(i).parses = 1
        /\ friends[j].wf /\ ~HasSource(j)
        /\ Res(j).discoveries = 1 /\ Res(j).parses = 1
        /\ Res(j).articles = <<>>

=============================================================================
